---- MODULE Spec2Model ----
(***************************************************************************)
(* Model of finrobot/functional/charting.py (compiled as                   *)
(* charting.cpython-310.pyc): MplFinanceUtils.plot_stock_price_chart,      *)
(* ReportChartUtils.get_share_performance and                              *)
(* ReportChartUtils.get_pe_eps_performance.                                *)
(*                                                                         *)
(* Abstractions:                                                           *)
(*  - a calendar date is a day number (an integer); a date string          *)
(*    'YYYY-MM-DD' is the record [str |-> day] and a datetime the record   *)
(*    [dt |-> day], so strptime / strftime are conversions, not identity;  *)
(*  - a float is an exact rational [k, n, d] or one of the IEEE specials   *)
(*    nan, +inf, -inf (numpy arithmetic does not raise on a zero divisor); *)
(*  - a path is a sequence of tokens, "/" and "." being tokens;            *)
(*  - the file system maps every path a renderer can write to the state of *)
(*    its content.                                                         *)
(***************************************************************************)
EXTENDS Integers, Sequences, FiniteSets, TLC

VARIABLES files, rcParams, openFigures, last, input, output

vars == <<files, rcParams, openFigures, last, input, output>>

-----------------------------------------------------------------------------
(* Floats *)

Abs(x) == IF x < 0 THEN -x ELSE x

Sign(x) == IF x < 0 THEN -1 ELSE IF x > 0 THEN 1 ELSE 0

RECURSIVE GCD(_, _)
GCD(a, b) == IF b = 0 THEN a ELSE GCD(b, a % b)

Num(n, d) == [k |-> "num", n |-> n, d |-> d]

NaN == [k |-> "nan", n |-> 0, d |-> 1]

Inf(s) == [k |-> "inf", n |-> s, d |-> 1]

\* the rational n/d in lowest terms with a positive denominator (d # 0)
Norm(n, d) ==
    LET g == GCD(Abs(n), Abs(d))
        s == IF d < 0 THEN -1 ELSE 1
    IN  Num((s * n) \div g, (s * d) \div g)

Int2Float(i) == Num(i, 1)

\* BINARY_SUBTRACT on floats
FloatSub(a, b) ==
    IF a.k = "nan" \/ b.k = "nan" THEN NaN
    ELSE IF a.k = "inf" /\ b.k = "inf" THEN (IF a.n = b.n THEN NaN ELSE a)
    ELSE IF a.k = "inf" THEN a
    ELSE IF b.k = "inf" THEN Inf(-b.n)
    ELSE Norm(a.n * b.d - b.n * a.d, a.d * b.d)

\* BINARY_MULTIPLY on floats
FloatMul(a, b) ==
    IF a.k = "nan" \/ b.k = "nan" THEN NaN
    ELSE IF a.k = "inf" \/ b.k = "inf"
         THEN (IF Sign(a.n) * Sign(b.n) = 0 THEN NaN ELSE Inf(Sign(a.n) * Sign(b.n)))
    ELSE Norm(a.n * b.n, a.d * b.d)

\* BINARY_TRUE_DIVIDE on numpy floats: a zero divisor gives nan or +-inf
FloatDiv(a, b) ==
    IF a.k = "nan" \/ b.k = "nan" THEN NaN
    ELSE IF b.k = "inf" THEN (IF a.k = "inf" THEN NaN ELSE Num(0, 1))
    ELSE IF b.n = 0 THEN (IF a.n = 0 THEN NaN ELSE Inf(Sign(a.n)))
    ELSE IF a.k = "inf" THEN Inf(a.n * Sign(b.n))
    ELSE Norm(a.n * b.d, a.d * b.n)

\* Python round() of the rational n/d (d > 0): nearest integer, ties to even
Round(n, d) ==
    LET q == n \div d
        r == n % d
    IN  IF 2 * r < d THEN q
        ELSE IF 2 * r > d THEN q + 1
        ELSE IF q % 2 = 0 THEN q ELSE q + 1

-----------------------------------------------------------------------------
(* Sequences *)

Reverse(s) == [i \in 1..Len(s) |-> s[Len(s) + 1 - i]]

\* the strictly increasing sequence of the elements of a finite set of integers
RECURSIVE SortedSeq(_)
SortedSeq(S) ==
    IF S = {} THEN <<>>
    ELSE LET m == CHOOSE x \in S : \A y \in S : y <= x
         IN  Append(SortedSeq(S \ {m}), m)

\* sub occurs in s as a contiguous run
Contains(s, sub) ==
    \E i \in 0..(Len(s) - Len(sub)) : \A j \in 1..Len(sub) : s[i + j] = sub[j]

-----------------------------------------------------------------------------
(* Dates *)

ShareDays == 365

DaysPerYearNum == 1461

DaysPerYearDen == 4

ExtraYears == 1

\* datetime.strptime(s, "%Y-%m-%d")
strptime(s) == [dt |-> s.str]

\* d.strftime("%Y-%m-%d")
strftime(d) == [str |-> d.dt]

\* d - timedelta(days=n)
MinusDays(d, n) == [dt |-> d.dt - n]

\* if isinstance(filing_date, str): filing_date = datetime.strptime(filing_date, ...)
ParseFilingDate(filing_date) ==
    IF "str" \in DOMAIN filing_date THEN strptime(filing_date) ELSE filing_date

\* the request fetch_stock_data(ticker) of get_share_performance sends to
\* YFinanceUtils.get_stock_data
ShareRequest(ticker, filing_date) ==
    [ticker |-> ticker,
     start  |-> strftime(MinusDays(filing_date, ShareDays)),
     end    |-> strftime(filing_date)]

PEDaysPlain(years) == years * 365

\* days = round((years + 1) * 365.25)
PEDays(years) == Round((years + ExtraYears) * DaysPerYearNum, DaysPerYearDen)

\* the request get_pe_eps_performance sends to YFinanceUtils.get_stock_data
PERequest(ticker, filing_date, years) ==
    [ticker |-> ticker,
     start  |-> strftime(MinusDays(filing_date, PEDays(years))),
     end    |-> strftime(filing_date)]

-----------------------------------------------------------------------------
(* pandas *)

\* a price table is a sequence of rows [date, Close] with strictly increasing
\* dates; a Series is a sequence of [date, v], v a float

\* historical_data["Close"]
CloseColumn(historical_data) ==
    [i \in 1..Len(historical_data) |->
        [date |-> historical_data[i].date, v |-> Int2Float(historical_data[i].Close)]]

PctScale == 100

PctChangeFromLast(close) ==
    [i \in 1..Len(close) |->
        [date |-> close[i].date,
         v    |-> FloatMul(FloatDiv(FloatSub(close[i].v, close[Len(close)].v),
                                    close[Len(close)].v),
                           Int2Float(PctScale))]]

\* (close - close.iloc[0]) / close.iloc[0] * 100, for a non-empty Series
PctChange(close) ==
    [i \in 1..Len(close) |->
        [date |-> close[i].date,
         v    |-> FloatMul(FloatDiv(FloatSub(close[i].v, close[1].v), close[1].v),
                           Int2Float(PctScale))]]

\* historical_data.index
Index(historical_data) == {historical_data[i].date : i \in 1..Len(historical_data)}

\* the row of all-NaN values DataFrame.asof returns when no row qualifies
NaNRow(date) == [date |-> date, v |-> NaN]

Row(r) == [date |-> r.date, v |-> Int2Float(r.Close)]

\* historical_data.loc[date], date in the index
Loc(historical_data, date) ==
    Row(historical_data[CHOOSE i \in 1..Len(historical_data) :
                            historical_data[i].date = date])

AsofForward(historical_data, date) ==
    LET S == {i \in 1..Len(historical_data) : historical_data[i].date >= date}
    IN  IF S = {} THEN NaNRow(date)
        ELSE Row(historical_data[CHOOSE i \in S : \A j \in S : i <= j])

\* historical_data.asof(date): the last row whose date is <= date
Asof(historical_data, date) ==
    LET S == {i \in 1..Len(historical_data) : historical_data[i].date <= date}
    IN  IF S = {} THEN NaNRow(date)
        ELSE Row(historical_data[CHOOSE i \in S : \A j \in S : j <= i])

\* the body of the loop over dates: the close paired with one filing date
ClosePrice(historical_data, date) ==
    IF date \notin Index(historical_data)
    THEN Asof(historical_data, date).v
    ELSE Loc(historical_data, date).v

\* results[key] = value on a dict kept as a sequence of <<key, value>> in
\* insertion order
DictSet(d, key, value) ==
    IF \E i \in 1..Len(d) : d[i][1] = key
    THEN [i \in 1..Len(d) |-> IF d[i][1] = key THEN <<key, value>> ELSE d[i]]
    ELSE Append(d, <<key, value>>)

\* results = {}; for date in dates: results[date] = close_price["Close"]
RECURSIVE ResultsLoop(_, _, _)
ResultsLoop(historical_data, dates, n) ==
    IF n = 0 THEN <<>>
    ELSE DictSet(ResultsLoop(historical_data, dates, n - 1),
                 dates[n], ClosePrice(historical_data, dates[n]))

\* results.values()
DictValues(d) == [i \in 1..Len(d) |-> d[i][2]]

\* eps.index[::-1]
FilingDates(eps) == Reverse([i \in 1..Len(eps) |-> eps[i].date])

\* eps.values[::-1]
EpsValues(eps) == Reverse([i \in 1..Len(eps) |-> Int2Float(eps[i].v)])

Min2(a, b) == IF a < b THEN a ELSE b

\* pe = [p / e for p, e in zip(results.values(), eps.values[::-1])]
PERatios(results, epsValues) ==
    [i \in 1..Min2(Len(results), Len(epsValues)) |->
        FloatDiv(DictValues(results)[i], epsValues[i])]

-----------------------------------------------------------------------------
(* Paths and the file system *)

\* the directories that exist; os.path.isdir(p)
ExistingDirs == {<<"out">>}

isdir(p) == p \in ExistingDirs

StockPerformancePng == <<"/", "stock_performance", ".", "png">>

PEPerformancePng == <<"/", "pe_performance", ".", "png">>

\* plot_path = f"{save_path}/<name>" if os.path.isdir(save_path) else save_path
PlotPath(save_path, name) ==
    IF isdir(save_path) THEN save_path \o name ELSE save_path

\* os.path.splitext(p)[1]: the extension of the last component, dot included
Ext(p) ==
    LET slashes == {i \in 1..Len(p) : p[i] = "/"}
        ls      == IF slashes = {} THEN 0 ELSE CHOOSE i \in slashes : \A j \in slashes : j <= i
        dots    == {i \in (ls + 1)..Len(p) :
                        p[i] = "." /\ \E j \in (ls + 1)..(i - 1) : p[j] # "."}
    IN  IF dots = {} THEN <<>>
        ELSE SubSeq(p, CHOOSE i \in dots : \A j \in dots : j <= i, Len(p))

\* p.rstrip('.')
RECURSIVE RStripDots(_)
RStripDots(p) ==
    IF p # <<>> /\ p[Len(p)] = "." THEN RStripDots(SubSeq(p, 1, Len(p) - 1)) ELSE p

\* the file savefig(fname) creates: matplotlib takes the format from the
\* extension of fname and, when there is none, appends the default ".png"
SavefigFile(fname) ==
    IF Len(Ext(fname)) <= 1 THEN RStripDots(fname) \o <<".", "png">> ELSE fname

SavePaths == {<<"out">>, <<"chart", ".", "png">>, <<"chart">>}

\* every file a renderer can create
FilePaths ==
    {SavefigFile(p) : p \in SavePaths}
        \cup {SavefigFile(PlotPath(p, StockPerformancePng)) : p \in SavePaths}
        \cup {SavefigFile(PlotPath(p, PEPerformancePng)) : p \in SavePaths}

\* how a write to the destination can end: the image is complete, the write
\* fails before the file is opened, or it fails after the file was opened
\* (and truncated) at the destination
WriteOutcomes == {"ok", "fail_before_open", "fail_partial"}

\* plt.savefig(fname) / mpf.plot(..., savefig=fname) on the file system
Savefig(fs, fname, w) ==
    [fs EXCEPT ![SavefigFile(fname)] =
        IF w = "ok" THEN "image" ELSE IF w = "fail_partial" THEN "partial" ELSE @]

-----------------------------------------------------------------------------
(* Inputs of the renderers *)

MaxDate == 2

MaxOpenFigures == 1

FontSize == 20

\* rcParams["font.size"] of the host before the first call (matplotlib: 10)
HostFontSizes == {10}

\* the filing date passed in (callers pass the string form)
FilingDateArgs == {[str |-> MaxDate]}

\* the tables the provider can return: dated rows, strictly increasing dates
\* (the close at date d is base + slope * d)
Tables(dates, base, slope) ==
    {[i \in 1..Cardinality(D) |->
        [date |-> SortedSeq(D)[i], Close |-> base + slope * SortedSeq(D)[i]]] :
     D \in SUBSET dates}

TargetTables == {t \in Tables(1..MaxDate, 45, 5) : Len(t) \in {0, MaxDate}}

SP500Tables == {t \in Tables(1..MaxDate, 98, 2) : Len(t) \in {0, MaxDate}}

\* the close of the price tables of get_pe_eps_performance at date d
PriceClose(d) == 10 * d

PriceTables(dates) == Tables(dates, 0, 10)

\* the "Diluted EPS" row of the income statement: most recent filing first
EpsSeries(dates, values) ==
    UNION {{[i \in 1..Cardinality(D) |->
                [date |-> Reverse(SortedSeq(D))[i], v |-> f[Reverse(SortedSeq(D))[i]]]] :
            f \in [D -> values]} :
           D \in SUBSET dates}

\* what a call leaves behind when nothing has been called yet
NoCall ==
    [fn |-> "none", args |-> <<>>, fetched |-> <<>>, requests |-> <<>>,
     outcome |-> "none", exc |-> "none", ret |-> <<>>, plot_path |-> <<>>,
     file |-> <<>>, fileBefore |-> "n/a", data |-> <<>>, style |-> <<>>]

\* a call that raised exc before it reached savefig
Raised(fn, args, fetched, requests, exc) ==
    [fn |-> fn, args |-> args, fetched |-> fetched, requests |-> requests,
     outcome |-> "raise", exc |-> exc, ret |-> <<>>, plot_path |-> <<>>,
     file |-> <<>>, fileBefore |-> "n/a", data |-> <<>>, style |-> <<>>]

\* a call that reached savefig(plot_path) with write outcome w
Saved(fn, args, fetched, requests, plot_path, w, ret, data, style) ==
    [fn |-> fn, args |-> args, fetched |-> fetched, requests |-> requests,
     outcome |-> IF w = "ok" THEN "ok" ELSE "raise",
     exc |-> IF w = "ok" THEN "none" ELSE "OSError",
     ret |-> IF w = "ok" THEN ret ELSE <<>>,
     plot_path |-> plot_path,
     file |-> SavefigFile(plot_path), fileBefore |-> files[SavefigFile(plot_path)],
     data |-> data, style |-> style]

-----------------------------------------------------------------------------
(* ReportChartUtils.get_share_performance *)

ShareReturn(plot_path) ==
    <<"last year stock performance chart saved to <img ">> \o plot_path \o <<">">>

get_share_performance(ticker_symbol, filing_date, save_path, provider, target, sp500, w) ==
    LET fd        == ParseFilingDate(filing_date)
        args      == [ticker_symbol |-> ticker_symbol, filing_date |-> filing_date,
                      save_path |-> save_path]
        requests  == <<ShareRequest(ticker_symbol, fd), ShareRequest("^GSPC", fd)>>
        fetched   == [target |-> target, sp500 |-> sp500]
        target_close == CloseColumn(target)
        sp500_close  == CloseColumn(sp500)
        plot_path == PlotPath(save_path, StockPerformancePng)
    IN  IF provider = "raises"
        THEN /\ last' = Raised("get_share_performance", args, <<>>, requests, "FetchError")
             /\ UNCHANGED <<files, rcParams, openFigures>>
        ELSE IF Len(target_close) = 0 \/ Len(sp500_close) = 0
        THEN \* target_close.iloc[0] / sp500_close.iloc[0] on an empty Series
             /\ last' = Raised("get_share_performance", args, fetched, requests, "IndexError")
             /\ UNCHANGED <<files, rcParams, openFigures>>
        ELSE /\ w # "ok" => openFigures < MaxOpenFigures
             \* plt.rcParams.update({"font.size": 20}) comes before plt.figure(...):
             \* the whole figure is drawn with FontSize. The two plt.plot lines,
             \* title, labels, xticks, legend and grid draw on that figure only.
             /\ rcParams' = [rcParams EXCEPT !.font_size = FontSize]
             /\ files' = Savefig(files, plot_path, w)
             \* plt.figure() ... plt.close(): close is not reached when savefig raises
             /\ openFigures' = IF w = "ok" THEN openFigures ELSE openFigures + 1
             /\ last' = Saved("get_share_performance", args, fetched, requests, plot_path, w,
                              ShareReturn(plot_path),
                              [company_change |-> PctChange(target_close),
                               sp500_change |-> PctChange(sp500_close)],
                              [axes_font |-> FontSize, text_font |-> FontSize])

GetSharePerformance ==
    \E filing_date \in FilingDateArgs, save_path \in SavePaths,
       provider \in {"returns", "raises"},
       target \in TargetTables, sp500 \in SP500Tables, w \in WriteOutcomes :
        /\ provider = "raises" => (target = <<>> /\ sp500 = <<>> /\ w = "ok")
        /\ (target = <<>> \/ sp500 = <<>>) => w = "ok"
        /\ get_share_performance("AAPL", filing_date, save_path, provider, target, sp500, w)
        /\ UNCHANGED <<input, output>>

-----------------------------------------------------------------------------
(* ReportChartUtils.get_pe_eps_performance *)

Years == {4}

EpsValueSet == {0, 2}

PEReturn(plot_path) ==
    <<"pe performance chart saved to <img ">> \o plot_path \o <<">">>

\* p / e raises ZeroDivisionError only between plain Python numbers; which kind
\* the provider's tables hold is not decided by this code
DivisionRaises(results, epsValues, arithmetic) ==
    /\ arithmetic = "python"
    /\ \E i \in 1..Min2(Len(results), Len(epsValues)) : epsValues[i].n = 0

get_pe_eps_performance(ticker_symbol, filing_date, years, save_path, provider, eps, historical_data, arithmetic, w) ==
    LET fd        == ParseFilingDate(filing_date)
        args      == [ticker_symbol |-> ticker_symbol, filing_date |-> filing_date,
                      years |-> years, save_path |-> save_path]
        requests  == <<PERequest(ticker_symbol, fd, years)>>
        fetched   == [eps |-> eps, historical_data |-> historical_data]
        dates     == FilingDates(eps)
        results   == ResultsLoop(historical_data, dates, Len(dates))
        pe        == PERatios(results, EpsValues(eps))
        plot_path == PlotPath(save_path, PEPerformancePng)
    IN  IF provider = "raises"
        THEN /\ last' = Raised("get_pe_eps_performance", args, <<>>, requests, "FetchError")
             /\ UNCHANGED <<files, rcParams, openFigures>>
        ELSE IF DivisionRaises(results, EpsValues(eps), arithmetic)
        THEN /\ last' = Raised("get_pe_eps_performance", args, fetched, requests,
                               "ZeroDivisionError")
             /\ UNCHANGED <<files, rcParams, openFigures>>
        ELSE /\ w # "ok" => openFigures < MaxOpenFigures
             \* fig, ax1 = plt.subplots(...) comes BEFORE rcParams.update(...):
             \* ax1 is built with the font size the previous calls left behind
             /\ rcParams' = [rcParams EXCEPT !.font_size = FontSize]
             /\ files' = Savefig(files, plot_path, w)
             \* plt.subplots() ... plt.close(): close is not reached when savefig raises
             /\ openFigures' = IF w = "ok" THEN openFigures ELSE openFigures + 1
             /\ last' = Saved("get_pe_eps_performance", args, fetched, requests, plot_path, w,
                              PEReturn(plot_path),
                              [dates |-> dates, results |-> results, pe |-> pe,
                               eps |-> EpsValues(eps)],
                              [axes_font |-> rcParams.font_size, text_font |-> FontSize])

GetPeEpsPerformance ==
    \E filing_date \in FilingDateArgs, years \in Years, save_path \in SavePaths,
       provider \in {"returns", "raises"},
       eps \in {e \in EpsSeries(1..MaxDate, EpsValueSet) : Len(e) = MaxDate},
       historical_data \in {t \in PriceTables(1..MaxDate) :
                                MaxDate \in Index(t)},
       arithmetic \in {"numpy", "python"}, w \in WriteOutcomes :
        /\ provider = "raises" =>
              ((\A i \in 1..Len(eps) : eps[i].v # 0) /\ Len(historical_data) = MaxDate
               /\ arithmetic = "numpy" /\ w = "ok")
        /\ arithmetic = "python" => ((\E i \in 1..Len(eps) : eps[i].v = 0) /\ w = "ok")
        /\ get_pe_eps_performance("AAPL", filing_date, years, save_path,
                                  provider, eps, historical_data, arithmetic, w)
        /\ UNCHANGED <<input, output>>

-----------------------------------------------------------------------------
(* MplFinanceUtils.plot_stock_price_chart *)

None == [none |-> TRUE, val |-> "None"]

Some(x) == [none |-> FALSE, val |-> x]

\* params = {...}
Params(ticker_symbol, save_path, type, style, mav, show_nontrading) ==
    [type |-> Some(type), style |-> Some(style),
     title |-> Some(<<ticker_symbol, " ", type, " chart">>),
     ylabel |-> Some("Price"), volume |-> Some(TRUE), ylabel_lower |-> Some("Volume"),
     mav |-> mav, show_nontrading |-> Some(show_nontrading),
     savefig |-> Some(save_path)]

\* filtered_params = {k: v for k, v in params.items() if v is not None}
FilteredParams(params) ==
    [k \in {k \in DOMAIN params : ~params[k].none} |-> params[k].val]

PriceReturn(type, save_path) ==
    <<type, " chart saved to <img ">> \o save_path \o <<">">>

plot_stock_price_chart(ticker_symbol, start_date, end_date, save_path, verbose, type, style, mav, show_nontrading, provider, stock_data, w) ==
    LET args     == [ticker_symbol |-> ticker_symbol, start_date |-> start_date,
                     end_date |-> end_date, save_path |-> save_path, verbose |-> verbose,
                     type |-> type, style |-> style, mav |-> mav,
                     show_nontrading |-> show_nontrading]
        requests == <<[ticker |-> ticker_symbol, start |-> start_date, end |-> end_date]>>
        fetched  == [stock_data |-> stock_data]
        filtered_params == FilteredParams(Params(ticker_symbol, save_path, type, style,
                                                 mav, show_nontrading))
    IN  IF provider = "raises"
        THEN /\ last' = Raised("plot_stock_price_chart", args, <<>>, requests, "FetchError")
             /\ UNCHANGED <<files, rcParams, openFigures>>
        ELSE IF stock_data = <<>>
        THEN \* the table is not checked here: mpf.plot raises on a table of no rows
             /\ last' = Raised("plot_stock_price_chart", args, fetched, requests, "PlotError")
             /\ UNCHANGED <<files, rcParams, openFigures>>
        ELSE /\ files' = Savefig(files, filtered_params.savefig, w)
             /\ last' = Saved("plot_stock_price_chart", args, fetched, requests,
                              filtered_params.savefig, w, PriceReturn(type, save_path),
                              [printed |-> verbose, params |-> filtered_params],
                              [mpf_style |-> filtered_params.style])
             /\ UNCHANGED <<rcParams, openFigures>>

PlotStockPriceChart ==
    \E save_path \in SavePaths, verbose \in BOOLEAN, mav \in {None, Some(5)},
       provider \in {"returns", "raises"},
       stock_data \in {t \in PriceTables(1..MaxDate) : Len(t) \in {0, MaxDate}},
       w \in WriteOutcomes :
        /\ (provider = "raises" \/ stock_data = <<>>) => w = "ok"
        /\ provider = "raises" => stock_data # <<>>
        /\ verbose <=> ~mav.none
        /\ plot_stock_price_chart("AAPL", [str |-> 1], [str |-> MaxDate], save_path, verbose,
                                  "candle", "default", mav, FALSE,
                                  provider, stock_data, w)
        /\ UNCHANGED <<input, output>>

-----------------------------------------------------------------------------
(* The renderers, called in any order *)

Init ==
    /\ files = [f \in FilePaths |-> "previous"]
    /\ rcParams \in [font_size : HostFontSizes]
    /\ openFigures = 0
    /\ last = NoCall
    /\ input = <<>>
    /\ output = <<>>

Next ==
    \/ PlotStockPriceChart
    \/ GetSharePerformance
    \/ GetPeEpsPerformance

Spec == Init /\ [][Next]_vars

-----------------------------------------------------------------------------
(* The percent-change normalisation of get_share_performance on its own *)

MaxLen == 3

TargetCloses == {45, 50, 55}

SP500Closes == {99, 100, 102}

\* the non-empty tables of at most MaxLen rows with closes from vals
CloseTables(vals) ==
    UNION {{[i \in 1..n |-> [date |-> i, Close |-> f[i]]] : f \in [1..n -> vals]} :
           n \in 1..MaxLen}

Idle ==
    /\ files = [f \in FilePaths |-> "previous"]
    /\ rcParams \in [font_size : HostFontSizes]
    /\ openFigures = 0
    /\ last = NoCall

InitNorm ==
    /\ Idle
    /\ input \in [target : CloseTables(TargetCloses), sp500 : CloseTables(SP500Closes)]
    /\ output = [done |-> FALSE]

Normalize ==
    /\ ~output.done
    /\ output' = [done |-> TRUE,
                  company_change |-> PctChange(CloseColumn(input.target)),
                  sp500_change |-> PctChange(CloseColumn(input.sp500))]
    /\ UNCHANGED <<files, rcParams, openFigures, last, input>>

NextNorm == Normalize

SpecNorm == InitNorm /\ [][NextNorm]_vars

\* change is the percent change of table: same dates, 0 at the first row and
\* change[i] * close[0] = (close[i] - close[0]) * 100 at every row
IsPercentChange(change, table) ==
    /\ Len(change) = Len(table)
    /\ change[1].v = Num(0, 1)
    /\ \A i \in 1..Len(table) :
        /\ change[i].date = table[i].date
        /\ change[i].v.k = "num"
        /\ change[i].v.n * table[1].Close
              = (table[i].Close - table[1].Close) * 100 * change[i].v.d

Closes(table) == [i \in 1..Len(table) |-> table[i].Close]

Values(series) == [i \in 1..Len(series) |-> series[i].v]

\* C1: each normalised series of get_share_performance is 0 at index 0 and
\* (close[i] - close[0]) / close[0] * 100 at every index i, the symbol and the
\* benchmark each against its own first close; closes 100,102,99 give 0,+2,-1
\* and closes 50,55,45 give 0,+10,-10.
C1_PercentChange ==
    output.done =>
        /\ IsPercentChange(output.company_change, input.target)
        /\ IsPercentChange(output.sp500_change, input.sp500)
        /\ Closes(input.sp500) = <<100, 102, 99>> =>
              Values(output.sp500_change) = <<Num(0, 1), Num(2, 1), Num(-1, 1)>>
        /\ Closes(input.target) = <<50, 55, 45>> =>
              Values(output.company_change) = <<Num(0, 1), Num(10, 1), Num(-10, 1)>>

C1_Witness ==
    /\ output.done
    /\ Closes(input.sp500) = <<100, 102, 99>>
    /\ Closes(input.target) = <<50, 55, 45>>
    /\ Values(output.sp500_change) = <<Num(0, 1), Num(2, 1), Num(-1, 1)>>
    /\ Values(output.company_change) = <<Num(0, 1), Num(10, 1), Num(-10, 1)>>

-----------------------------------------------------------------------------
(* The as-of join of get_pe_eps_performance on its own *)

MaxAsofDate == 4

InitAsof ==
    /\ Idle
    /\ input \in [historical_data : PriceTables(1..MaxAsofDate),
                  eps : {e \in EpsSeries(1..MaxAsofDate, {2}) : e # <<>>}]
    /\ output = [done |-> FALSE]

AsofJoin ==
    /\ ~output.done
    /\ LET dates == FilingDates(input.eps)
       IN  output' = [done |-> TRUE, dates |-> dates,
                      results |-> ResultsLoop(input.historical_data, dates, Len(dates))]
    /\ UNCHANGED <<files, rcParams, openFigures, last, input>>

NextAsof == AsofJoin

SpecAsof == InitAsof /\ [][NextAsof]_vars

\* the close the join paired with filing date F (one entry per filing date)
PairedClose(results, F) ==
    results[CHOOSE i \in 1..Len(results) : results[i][1] = F][2]

-----------------------------------------------------------------------------
(* The price window of get_pe_eps_performance on its own *)

MaxYears == 6

MaxDay == 5

DefaultYears == 4

\* the years parameter: years=4 when the caller passes none
YearsOrDefault(years) == IF years.none THEN DefaultYears ELSE years.val

InitWindow ==
    /\ Idle
    /\ input \in [filing_date : {[str |-> d] : d \in 0..MaxDay} \cup {[dt |-> d] : d \in 0..MaxDay},
                  years : {None} \cup {Some(y) : y \in 1..MaxYears}]
    /\ output = [done |-> FALSE]

RequestWindow ==
    /\ ~output.done
    /\ output' = [done |-> TRUE,
                  years |-> YearsOrDefault(input.years),
                  request |-> PERequest("AAPL", ParseFilingDate(input.filing_date),
                                        YearsOrDefault(input.years))]
    /\ UNCHANGED <<files, rcParams, openFigures, last, input>>

NextWindow == RequestWindow

SpecWindow == InitWindow /\ [][NextWindow]_vars

\* the day number of the as_of_date argument, whichever form it came in
AsOfDay(filing_date) ==
    IF "str" \in DOMAIN filing_date THEN filing_date.str ELSE filing_date.dt

\* C10 as stated: the price window requested is
\* [as_of_date - lookback_years * 365 days, as_of_date].
C10_AsStated ==
    output.done =>
        /\ output.request.end = [str |-> AsOfDay(input.filing_date)]
        /\ output.request.start
              = [str |-> AsOfDay(input.filing_date) - output.years * 365]

\* C10 amended: the price window requested is [as_of_date - N days, as_of_date]
\* with N the integer nearest to (lookback_years + 1) * 365.25, a tie going to
\* the even integer; lookback_years is 4 when not given.
C10_Window ==
    output.done =>
        LET N  == AsOfDay(input.filing_date) - output.request.start.str
            x4 == (output.years + 1) * 1461
        IN  /\ output.request.end = [str |-> AsOfDay(input.filing_date)]
            /\ input.years.none => output.years = 4
            /\ ~input.years.none => output.years = input.years.val
            /\ Abs(4 * N - x4) <= 2
            /\ Abs(4 * N - x4) = 2 => N % 2 = 0

C10_Witness ==
    /\ output.done
    /\ input.years.none
    /\ input.filing_date = [str |-> MaxDay]
    /\ output.request.start = [str |-> MaxDay - 1826]
    /\ output.request.end = [str |-> MaxDay]

-----------------------------------------------------------------------------
(* Claims about whole calls, checked under Spec *)

\* the filing dates of the last get_pe_eps_performance call that have a price
\* row at or before them
Matched(eps, historical_data) ==
    {k \in 1..Len(eps) :
        \E i \in 1..Len(historical_data) : historical_data[i].date <= eps[k].date}

\* C3: in get_pe_eps_performance the number of P/E points equals the number of
\* filing events with a resolvable price match; a filing date older than the
\* earliest price row yields no point (dropped, not an undefined value), and
\* does not make the render fail.
C3_PointsAreMatchedFilings ==
    (last.fn = "get_pe_eps_performance" /\ last.outcome = "ok") =>
        /\ Len(last.data.pe)
              = Cardinality(Matched(last.fetched.eps, last.fetched.historical_data))
        /\ \A i \in 1..Len(last.data.pe) : last.data.pe[i].k # "nan"

\* C4: in get_pe_eps_performance a diluted EPS of zero makes the call fail
\* with a division-by-zero error before any image is written: no infinite or
\* undefined P/E, no success string.
C4_ZeroEpsFailsFast ==
    (/\ last.fn = "get_pe_eps_performance"
     /\ last.exc # "FetchError"
     /\ \E k \in 1..Len(last.fetched.eps) : last.fetched.eps[k].v = 0)
    => /\ last.outcome = "raise"
       /\ last.exc = "ZeroDivisionError"
       /\ last.file = <<>>
       /\ last.ret = <<>>

\* C5: when the provider returns zero rows (symbol or benchmark series of
\* get_share_performance, the table of plot_stock_price_chart) the call returns
\* a NoData error, writes no image and returns no success string.
C5_EmptyIsNoData ==
    (/\ last.fn \in {"get_share_performance", "plot_stock_price_chart"}
     /\ last.exc # "FetchError"
     /\ IF last.fn = "get_share_performance"
        THEN last.fetched.target = <<>> \/ last.fetched.sp500 = <<>>
        ELSE last.fetched.stock_data = <<>>)
    => /\ last.outcome = "raise"
       /\ last.exc = "NoData"
       /\ last.file = <<>>
       /\ last.ret = <<>>

\* C6: after a failed call the destination holds its previous content or a
\* complete image, never a half-written file.
C6_NoPartialOutput ==
    (last.outcome = "raise" /\ last.file # <<>>) =>
        files[last.file] \in {last.fileBefore, "image"}

\* the path C7 calls resolved: save_path, with ".png" appended when it has no
\* file extension
C7_ResolvedPath(save_path) ==
    IF Len(Ext(save_path)) <= 1 THEN save_path \o <<".", "png">> ELSE save_path

\* C7: plot_stock_price_chart with non-empty rows writes one image, at the
\* resolved path (save_path, ".png" appended when it has no extension), and
\* the returned string contains that resolved path.
C7_StringNamesTheFile ==
    (/\ last.fn = "plot_stock_price_chart"
     /\ last.outcome = "ok"
     /\ last.fetched.stock_data # <<>>)
    => /\ last.file = C7_ResolvedPath(last.args.save_path)
       /\ files[last.file] = "image"
       /\ Contains(last.ret, C7_ResolvedPath(last.args.save_path))

\* the default file name of each report renderer
C8_DefaultName(fn) ==
    IF fn = "get_share_performance" THEN StockPerformancePng ELSE PEPerformancePng

\* C8: in get_share_performance / get_pe_eps_performance the resolved path is
\* <save_path>/stock_performance.png (resp. pe_performance.png) iff save_path
\* is an existing directory and save_path otherwise; the image is written to
\* exactly that path and the returned string embeds exactly that path.
C8_ResolvedPathIsWritten ==
    (/\ last.fn \in {"get_share_performance", "get_pe_eps_performance"}
     /\ last.outcome = "ok")
    => LET resolved == IF last.args.save_path \in ExistingDirs
                       THEN last.args.save_path \o C8_DefaultName(last.fn)
                       ELSE last.args.save_path
       IN  /\ last.plot_path = resolved
           /\ last.file = resolved
           /\ files[last.file] = "image"
           /\ Contains(last.ret, resolved)

\* C9: the output of a call (data, styling, returned string) depends only on
\* its inputs and fetched data: the same call made twice in a row gives the
\* same output.
C9_SameCallSameOutput ==
    [][(/\ last.outcome = "ok"
        /\ last'.outcome = "ok"
        /\ last'.fn = last.fn
        /\ last'.args = last.args
        /\ last'.fetched = last.fetched)
       => (/\ last'.ret = last.ret
           /\ last'.data = last.data
           /\ last'.style = last.style)]_vars

====
